---- MODULE Spec2Model ----
(***************************************************************************)
(* The notebook CS_Image_Access.ipynb as a state machine: a Jupyter kernel *)
(* executes the notebook's code cells one statement at a time; the user    *)
(* runs the cells down the notebook, may run a cell again after it raised, *)
(* go back to a cell that has run, and restart the kernel.                 *)
(* The registry, the SIA services and the image servers are the            *)
(* environment: a network call may return or fail.                         *)
(***************************************************************************)
EXTENDS Integers, Sequences, FiniteSets, TLC

VARIABLES
    registry,    \* the resources the registry holds, in the order it lists them
    ns,          \* the kernel's namespace: name -> <<>> (unbound) or <<value>>
    reads,       \* table name -> how often getdataurl() was called on each record
    cache,       \* astropy's download cache on disk: URL -> file contents
    queue,       \* the cells the user asked to run, not started yet
    running,     \* the cell the kernel executes, or None
    pc,          \* the statement of the running cell that is next (0: no cell)
    inflight,    \* the network calls that were issued and have not returned
    error,       \* the exception that ended the last cell, or "none"
    shown,       \* what the front end was last handed to show
    lastStarted, \* position in the notebook of the last cell started (0: none)
    order,       \* how the cells of this session were run: strict, retry, free
    budget,      \* how many times the user may still go back or restart
    log          \* what happened so far: the services the registry returned, the
                 \* queries answered, the URLs read, the URLs the cache served

vars == <<registry, ns, reads, cache, queue, running, pc, inflight, error, shown,
          lastStarted, order, budget, log>>

----------------------------------------------------------------------------
(* Bounds of the model. *)

\* the registry holds at most this many resources of the optical band
MaxOptical == 2
\* a service query returns 0..MaxRecords records
MaxRecords == 2
\* an image server serves one of 1..MaxVersions contents for a URL
MaxVersions == 2
\* the user has at most this many cells waiting behind the running one
MaxQueue == 1
\* a record's data URL is read at most this many times while its table lives
MaxReads == 3
\* the user leaves the order of the notebook at most this many times: goes
\* back to a cell that has run, or restarts the kernel
MaxJumps == 1

None == "None"

----------------------------------------------------------------------------
(* Strings the code tests with `in`: sequences of characters. *)

RECURSIVE HasPrefix(_, _)
HasPrefix(needle, s) ==
    IF needle = <<>> THEN TRUE
    ELSE IF s = <<>> THEN FALSE
    ELSE Head(needle) = Head(s) /\ HasPrefix(Tail(needle), Tail(s))

\* Python's  needle in s  on strings: s holds needle as a substring
RECURSIVE Contains(_, _)
Contains(needle, s) ==
    IF HasPrefix(needle, s) THEN TRUE
    ELSE IF s = <<>> THEN FALSE
    ELSE Contains(needle, Tail(s))

SDSSDR7 == <<"S","D","S","S","D","R","7">>
heasarc == <<"h","e","a","s","a","r","c">>
jhu == <<"j","h","u">>

----------------------------------------------------------------------------
(* The image resources a registry may hold. *)

Resources == {"SwiftUVOT", "SkyViewDR7", "SkyServerDR7", "SkyServerSIAP", "MirrorDR7"}

Optical == Resources \ {"SwiftUVOT"}

ivoid(s) ==
    CASE s = "SwiftUVOT" ->
           <<"i","v","o",":","/","/","n","a","s","a",".","h","e","a","s","a","r","c",
             "/","s","k","y","v","i","e","w","/","s","w","i","f","t","u","v","o","t">>
      [] s = "SkyViewDR7" ->
           <<"i","v","o",":","/","/","n","a","s","a",".","h","e","a","s","a","r","c",
             "/","s","k","y","v","i","e","w","/","s","d","s","s","d","r","7">>
      [] s = "SkyServerDR7" ->
           <<"i","v","o",":","/","/","s","d","s","s",".","j","h","u","/","s","e","r",
             "v","i","c","e","s","/","s","i","a","p","d","r","7","-","i","m","a","g",
             "e","s">>
      [] s = "SkyServerSIAP" ->
           <<"i","v","o",":","/","/","s","d","s","s",".","j","h","u","/","s","e","r",
             "v","i","c","e","s","/","s","i","a","p">>
      [] s = "MirrorDR7" ->
           <<"i","v","o",":","/","/","j","h","u",".","e","d","u","/","h","e","a","s",
             "a","r","c","/","s","d","s","s","d","r","7">>

short_name(s) ==
    CASE s = "SwiftUVOT" -> <<"S","w","i","f","t","U","V","O","T">>
      [] s = "SkyServerSIAP" -> <<"S","D","S","S"," ","S","I","A","P">>
      [] OTHER -> SDSSDR7

waveband(s) == IF s = "SwiftUVOT" THEN {"uv", "optical"} ELSE {"optical"}

subjects(s) == IF s = "SwiftUVOT" THEN {"swift"} ELSE {"sloan"}

\* the name the service gives to the column that holds the access URL
UrlColumn(s) ==
    IF s \in {"SkyServerDR7", "SkyServerSIAP"} THEN "url" ELSE "URL"

----------------------------------------------------------------------------
(* The library calls the cells make. *)

\* (variant) a search that returns FITS records whatever format was asked for
FitsOnly(s, f, n) == [service |-> s, format |-> "image/fits", n |-> n]

\* (variant) the access URL looked up under one service's column name
ColumnByName(rec) ==
    IF "url" \in DOMAIN rec THEN rec["url"].value ELSE rec["Title"].value

\* (variant) [...][-1]: the last of the matching services
LastMatching(services, where) ==
    LET m == SelectSeq(services,
                       LAMBDA s : Contains(SDSSDR7, short_name(s))
                                  /\ Contains(where, ivoid(s)))
    IN  m[Len(m)]

\* (variant) cache=False: nothing is ever found in the download cache
CacheMiss(url, c) == FALSE

\* (variant) a download that leaves only its own file in the cache
Overwritten(c, url, v) == (url :> v)

\* vo.regsearch(servicetype='image', waveband=.., keywords=..): the resources
\* that match, in the registry's order
regsearch(reg, band, keywords) ==
    SelectSeq(reg, LAMBDA s : band \in waveband(s) /\ keywords \subseteq subjects(s))

\* the format of the records a service returns for format=f; a service asked
\* with format='' answers with what its access URL hard-wires, image/fits
ResponseFormat(f) == IF f = "" THEN "image/fits" ELSE f

\* service.search(pos=coords, size=0.2, format=f): a table of n records; the
\* call returns the list of the images, not an image
search(s, f, n) == [service |-> s, format |-> ResponseFormat(f), n |-> n]

\* where record i of a table says its image is
AccessReference(s, f, i) == [service |-> s, format |-> f, index |-> i]

\* table[i]: the record as the service's columns, each with its UCD
Record(t, i) ==
    ("Title" :> [ucd |-> "VOX:Image_Title", value |-> <<t.service, i>>])
    @@ ("Format" :> [ucd |-> "VOX:Image_Format", value |-> t.format])
    @@ (UrlColumn(t.service) :>
          [ucd |-> "VOX:Image_AccessReference",
           value |-> AccessReference(t.service, t.format, i)])

\* record.getdataurl(): the value of the column whose UCD marks the access
\* reference, whatever the column is called
getdataurl(rec) ==
    LET c == CHOOSE c \in DOMAIN rec : rec[c].ucd = "VOX:Image_AccessReference"
    IN  rec[c].value

\* [s for s in services if 'SDSSDR7' in s.short_name and where in s.ivoid]
Matching(services, where) ==
    SelectSeq(services,
              LAMBDA s : Contains(SDSSDR7, short_name(s)) /\ Contains(where, ivoid(s)))

\* [...][0] of the list above; the caller has checked that it is not empty
FirstMatching(services, where) == Matching(services, where)[1]

\* download_file(url, cache=True) finds url in the download cache
CacheHit(url, c) == url \in DOMAIN c

\* the cache after url was fetched with contents v
Store(c, url, v) == (url :> v) @@ c

----------------------------------------------------------------------------
(* The notebook: its code cells, top to bottom, and their statements. *)

Cells ==
    <<"imports", "uv_services", "uvot_services", "im_table_jpeg", "url", "img",
      "im_table_fits", "imshow", "aplpy", "services", "heasarc_query",
      "heasarc_download", "jhu_query", "jhu_download">>

CellSet == {Cells[k] : k \in DOMAIN Cells}

\* the position of cell c in the notebook
Index == [c \in CellSet |-> CHOOSE k \in DOMAIN Cells : Cells[k] = c]

Names ==
    {"modules", "uv_services", "uvot_services", "coords", "im_table", "url", "img",
     "hdu_list", "gc", "services", "heasarc_dr7_service", "sdss_table_heasarc",
     "file_name", "jhu_dr7_service", "sdss_table_jhu"}

\* a name a statement reads, and the subscript it applies to it (-1: none)
Name(x) == [name |-> x, index |-> -1, kind |-> "name"]
Item(x, i) == [name |-> x, index |-> i, kind |-> "list"]
Row(x, i) == [name |-> x, index |-> i, kind |-> "table"]

\* the statements of a cell that call a library, in order; what a statement
\* only prints (to_table(), print, info()) changes nothing and is left out
Source(c) ==
    CASE c = "imports" ->
           <<[op |-> "import", target |-> "modules", operands |-> <<>>]>>
      [] c = "uv_services" ->
           <<[op |-> "regsearch", target |-> "uv_services",
              operands |-> <<Name("modules")>>, band |-> "uv", keywords |-> {}]>>
      [] c = "uvot_services" ->
           <<[op |-> "regsearch", target |-> "uvot_services",
              operands |-> <<Name("modules")>>, band |-> "uv",
              keywords |-> {"swift"}]>>
      [] c = "im_table_jpeg" ->
           <<[op |-> "from_name", target |-> "coords",
              operands |-> <<Name("modules")>>],
             [op |-> "search", target |-> "im_table",
              operands |-> <<Item("uvot_services", 0), Name("coords")>>,
              format |-> "image/jpeg"]>>
      [] c = "url" ->
           <<[op |-> "getdataurl", target |-> "url",
              operands |-> <<Row("im_table", 0)>>]>>
      [] c = "img" ->
           <<[op |-> "getdataurl", target |-> "img",
              operands |-> <<Name("modules"), Row("im_table", 0)>>],
             [op |-> "display", target |-> "img",
              operands |-> <<Name("modules"), Name("img")>>]>>
      [] c = "im_table_fits" ->
           <<[op |-> "search", target |-> "im_table",
              operands |-> <<Item("uvot_services", 0), Name("coords")>>,
              format |-> "image/fits"],
             [op |-> "fits_open_url", target |-> "hdu_list",
              operands |-> <<Name("modules"), Row("im_table", 0)>>]>>
      [] c = "imshow" ->
           <<[op |-> "imshow", target |-> "hdu_list",
              operands |-> <<Name("modules"), Name("hdu_list")>>]>>
      [] c = "aplpy" ->
           <<[op |-> "FITSFigure", target |-> "gc",
              operands |-> <<Name("modules"), Name("hdu_list")>>]>>
      [] c = "services" ->
           <<[op |-> "regsearch", target |-> "services",
              operands |-> <<Name("modules")>>, band |-> "optical",
              keywords |-> {"sloan"}]>>
      [] c = "heasarc_query" ->
           <<[op |-> "select", target |-> "heasarc_dr7_service",
              operands |-> <<Name("services")>>, where |-> heasarc],
             [op |-> "search", target |-> "sdss_table_heasarc",
              operands |-> <<Name("heasarc_dr7_service"), Name("coords")>>,
              format |-> "image/fits"]>>
      [] c = "heasarc_download" ->
           <<[op |-> "download_file", target |-> "file_name",
              operands |-> <<Name("modules"), Row("sdss_table_heasarc", 0)>>],
             [op |-> "fits_open_file", target |-> "hdu_list",
              operands |-> <<Name("modules"), Name("file_name")>>],
             [op |-> "imshow", target |-> "hdu_list",
              operands |-> <<Name("modules"), Name("hdu_list")>>]>>
      [] c = "jhu_query" ->
           <<[op |-> "select", target |-> "jhu_dr7_service",
              operands |-> <<Name("services")>>, where |-> jhu],
             [op |-> "search", target |-> "sdss_table_jhu",
              operands |-> <<Name("jhu_dr7_service"), Name("coords")>>,
              format |-> ""]>>
      [] c = "jhu_download" ->
           <<[op |-> "download_file", target |-> "file_name",
              operands |-> <<Name("modules"), Row("sdss_table_jhu", 1)>>],
             [op |-> "fits_open_file", target |-> "hdu_list",
              operands |-> <<Name("modules"), Name("file_name")>>],
             [op |-> "imshow", target |-> "hdu_list",
              operands |-> <<Name("modules"), Name("hdu_list")>>]>>

----------------------------------------------------------------------------
(* Evaluating a statement's operands in the kernel's namespace. *)

Bound(n, x) == n[x] # <<>>
Val(n, x) == n[x][1]
Bind(n, x, v) == [n EXCEPT ![x] = <<v>>]

\* len() of the value an operand subscripts
Size(o, v) == IF o.kind = "table" THEN v.n ELSE Len(v)

\* the exception Python raises while it evaluates the operands left to
\* right, or "none"
RECURSIVE OperandError(_, _)
OperandError(ops, n) ==
    IF ops = <<>> THEN "none"
    ELSE LET o == Head(ops)
         IN  IF ~Bound(n, o.name) THEN "NameError"
             ELSE IF o.index >= 0 /\ o.index >= Size(o, Val(n, o.name))
                  THEN "IndexError"
             ELSE OperandError(Tail(ops), n)

\* the exception a statement raises before it has any effect
Raises(s, n) ==
    LET e == OperandError(s.operands, n)
    IN  IF e # "none" THEN e
        ELSE IF s.op = "select" /\ Matching(Val(n, "services"), s.where) = <<>>
             THEN "IndexError"
        ELSE "none"

\* (variant) a query sent to one service whatever was selected
HardWiredService(s, n) == "SkyViewDR7"

\* the service a search statement is called on: services[0], or a name
ServiceOperand(s, n) ==
    LET o == s.operands[1]
    IN  IF o.index >= 0 THEN Val(n, o.name)[o.index + 1] ELSE Val(n, o.name)

\* the table operand of a statement that calls table[i].getdataurl()
TableOperand(s) == s.operands[Len(s.operands)]

\* the URL table[i].getdataurl() returns to the statement
DataUrl(s, n) ==
    LET o == TableOperand(s) IN getdataurl(Record(Val(n, o.name), o.index))

\* (variant) the url cell assigns to im_table
Clobbering(s) == IF s.target = "url" THEN "im_table" ELSE s.target

\* (variant) getdataurl() on one record counts for every record of its table
ConsumedAll(s, r) ==
    LET o == s.operands[Len(s.operands)]
    IN  [r EXCEPT ![o.name] = [i \in DOMAIN @ |-> @[i] + 1]]

\* the name a statement binds
Target(s) == s.target

Tables == {"im_table", "sdss_table_heasarc", "sdss_table_jhu"}

\* no record of a table that was just returned has been read
Unread(r, x, t) == [r EXCEPT ![x] = [i \in 0 .. t.n - 1 |-> 0]]

\* the reads after the statement's table[i].getdataurl(): the record was
\* read once more
Consumed(s, r) ==
    LET o == TableOperand(s)
    IN  [r EXCEPT ![o.name][o.index] = @ + 1]

\* the tables cell c has when it starts and reads a record of with
\* getdataurl(); a table the cell binds itself before is a new one
Reads(c) ==
    {TableOperand(Source(c)[k]).name :
        k \in {j \in DOMAIN Source(c) :
                 /\ Source(c)[j].op \in {"getdataurl", "fits_open_url", "download_file"}
                 /\ \A i \in 1 .. j - 1 :
                      Target(Source(c)[i]) # TableOperand(Source(c)[j]).name}}

Consumes == [c \in CellSet \cup {None} |-> IF c = None THEN {} ELSE Reads(c)]

----------------------------------------------------------------------------
(* The kernel. *)

\* the lists of up to k resources of the optical band
RECURSIVE Listings(_)
Listings(k) ==
    IF k = 0 THEN {<<>>}
    ELSE LET shorter == Listings(k - 1)
         IN  shorter \cup
             {Append(l, s) : l \in {m \in shorter : Len(m) = k - 1}, s \in Optical}

NoDuplicates(l) == \A i, j \in DOMAIN l : l[i] = l[j] => i = j

\* the registries the model starts from: with or without the Swift UVOT
\* resource, and up to MaxOptical different resources of the optical band in
\* any order (no search of the notebook returns resources of both kinds, so
\* their order among each other is of no account)
Registries ==
    {uv \o opt : uv \in {<<>>, <<"SwiftUVOT">>},
                 opt \in {l \in Listings(MaxOptical) : NoDuplicates(l)}}

Empty == [x \in Names |-> <<>>]

NoReads == [x \in Tables |-> <<>>]

EmptyCache == [u \in {} |-> 0]

\* a new kernel and an empty download cache; the registry is one of regs and
\* the user may go back b times
Fresh(regs, b) ==
    /\ registry \in regs
    /\ ns = Empty
    /\ reads = NoReads
    /\ cache = EmptyCache
    /\ queue = <<>>
    /\ running = None
    /\ pc = 0
    /\ inflight = {}
    /\ error = "none"
    /\ shown = <<>>
    /\ lastStarted = 0
    /\ order = "strict"
    /\ budget = b
    /\ log = [searched |-> {}, queried |-> {}, obtained |-> {}, hit |-> {}]

Init == Fresh(Registries, MaxJumps)

\* the statement the kernel executes next
Cur == Source(running)[pc]

\* the cells that were asked for or started and may still read a record
Pending == {k \in DOMAIN queue : TRUE} \cup {0}
PendingCell(k) == IF k = 0 THEN running ELSE queue[k]

\* every record of table x can be read once more by each pending cell and
\* by one more
ReadsLeft(x) ==
    Bound(ns, x) =>
        \A i \in DOMAIN reads[x] :
            reads[x][i]
              + Cardinality({k \in Pending : x \in Consumes[PendingCell(k)]})
              < MaxReads

\* (variant) a kernel that starts a cell whenever the user asks
Whenever == TRUE

\* whether a new cell may start: the kernel executes one cell at a time
Idle == running = None /\ inflight = {}

\* the cell at position k has run before and did not raise, or cells after
\* it have run
Back(k) == k < lastStarted \/ (k = lastStarted /\ error = "none")

\* the position of the last cell the user asked for
Last == IF queue # <<>> THEN Index[queue[Len(queue)]] ELSE lastStarted

\* how the session's cells were run once the cell at position k starts
NextOrder(k) ==
    IF order = "free" \/ Back(k) THEN "free"
    ELSE IF k = lastStarted THEN "retry"
    ELSE order

\* the kernel starts to execute cell c
Begin(c) ==
    /\ running' = c
    /\ pc' = 1
    /\ error' = "none"
    /\ order' = NextOrder(Index[c])
    /\ lastStarted' = Index[c]
    /\ budget' = IF Back(Index[c]) THEN budget - 1 ELSE budget

\* The user runs cell c while the kernel is free: it starts at once.  The
\* user works down the notebook: the next cell, unless the last one raised;
\* the cell that raised, once more; or a cell that has run, again.
RunCell(c) ==
    /\ Idle
    /\ queue = <<>>
    /\ \A x \in Consumes[c] : ReadsLeft(x)
    /\ \/ Index[c] = lastStarted + 1 /\ error = "none" /\ order # "free"
       \/ Index[c] = lastStarted /\ error # "none"
       \/ Back(Index[c]) /\ budget > 0
    /\ Begin(c)
    /\ UNCHANGED <<registry, ns, reads, cache, queue, inflight, shown, log>>

\* The user runs cell c, the next one, while the kernel is busy: it waits.
Request(c) ==
    /\ running # None
    /\ Len(queue) < MaxQueue
    /\ \A x \in Consumes[c] : ReadsLeft(x)
    /\ Index[c] = Last + 1
    /\ order # "free"
    /\ queue' = Append(queue, c)
    /\ UNCHANGED <<registry, ns, reads, cache, running, pc, inflight, error, shown,
                   lastStarted, order, budget, log>>

\* The kernel takes the next cell of the queue once the cell before it has
\* returned.
Start ==
    /\ Idle
    /\ queue # <<>>
    /\ Begin(Head(queue))
    /\ queue' = Tail(queue)
    /\ UNCHANGED <<registry, ns, reads, cache, inflight, shown, log>>

\* the kernel after statement p of cell c has completed
Advance(c, p) ==
    IF p = Len(Source(c)) THEN [running |-> None, pc |-> 0]
    ELSE [running |-> c, pc |-> p + 1]

Completed ==
    /\ running' = Advance(running, pc).running
    /\ pc' = Advance(running, pc).pc

\* an exception ends the cell; the kernel drops the cells that wait
Raised(e) ==
    /\ error' = e
    /\ running' = None
    /\ pc' = 0
    /\ queue' = <<>>

Executing(ops) ==
    /\ running # None
    /\ inflight = {}
    /\ Cur.op \in ops

\* A statement raises NameError or IndexError while it evaluates its operands.
Raise ==
    /\ running # None
    /\ inflight = {}
    /\ Raises(Cur, ns) # "none"
    /\ Raised(Raises(Cur, ns))
    /\ UNCHANGED <<registry, ns, reads, cache, inflight, shown, lastStarted, order, budget, log>>

\* import ...: the module names are bound
Import ==
    /\ Executing({"import"})
    /\ ns' = Bind(ns, Target(Cur), TRUE)
    /\ Completed
    /\ UNCHANGED <<registry, reads, cache, queue, inflight, error, shown, lastStarted,
                   order, budget, log>>

\* x_dr7_service = [s for s in services if ...][0]
Select ==
    /\ Executing({"select"})
    /\ Raises(Cur, ns) = "none"
    /\ ns' = Bind(ns, Target(Cur), FirstMatching(Val(ns, "services"), Cur.where))
    /\ Completed
    /\ UNCHANGED <<registry, reads, cache, queue, inflight, error, shown, lastStarted,
                   order, budget, log>>

\* url = im_table[0].getdataurl()  and  img = ipImage(url=im_table[0].getdataurl())
GetDataUrl ==
    /\ Executing({"getdataurl"})
    /\ Raises(Cur, ns) = "none"
    /\ ns' = Bind(ns, Target(Cur), DataUrl(Cur, ns))
    /\ reads' = Consumed(Cur, reads)
    /\ log' = [log EXCEPT !.obtained = @ \cup {DataUrl(Cur, ns)}]
    /\ Completed
    /\ UNCHANGED <<registry, cache, queue, inflight, error, shown, lastStarted,
                   order, budget>>

\* display(img): the front end is handed the image's URL
Display ==
    /\ Executing({"display"})
    /\ Raises(Cur, ns) = "none"
    /\ shown' = <<[cell |-> running, url |-> Val(ns, "img")]>>
    /\ Completed
    /\ UNCHANGED <<registry, ns, reads, cache, queue, inflight, error, lastStarted,
                   order, budget, log>>

\* the HDU list fits.open() makes of a file of the download cache
Opened(url, c) == [url |-> url, data |-> c[url]]

\* hdu_list = fits.open(file_name)
FitsOpenFile ==
    /\ Executing({"fits_open_file"})
    /\ Raises(Cur, ns) = "none"
    /\ ns' = Bind(ns, Target(Cur), Opened(Val(ns, "file_name"), cache))
    /\ Completed
    /\ UNCHANGED <<registry, reads, cache, queue, inflight, error, shown, lastStarted,
                   order, budget, log>>

\* plt.imshow(hdu_list[0].data, ...)
Imshow ==
    /\ Executing({"imshow"})
    /\ Raises(Cur, ns) = "none"
    /\ shown' = <<[cell |-> running, url |-> Val(ns, "hdu_list").url]>>
    /\ Completed
    /\ UNCHANGED <<registry, ns, reads, cache, queue, inflight, error, lastStarted,
                   order, budget, log>>

\* gc = aplpy.FITSFigure(hdu_list, ...); gc.show_grayscale(...)
FITSFigure ==
    /\ Executing({"FITSFigure"})
    /\ Raises(Cur, ns) = "none"
    /\ ns' = Bind(ns, Target(Cur), Val(ns, "hdu_list"))
    /\ shown' = <<[cell |-> running, url |-> Val(ns, "hdu_list").url]>>
    /\ Completed
    /\ UNCHANGED <<registry, reads, cache, queue, inflight, error, lastStarted, order, budget,
                   log>>

\* the network call a statement makes
Call(s, n) ==
    CASE s.op = "regsearch" ->
           [op |-> "regsearch", band |-> s.band, keywords |-> s.keywords]
      [] s.op = "from_name" -> [op |-> "from_name"]
      [] s.op = "search" ->
           [op |-> "search", service |-> ServiceOperand(s, n), format |-> s.format]

\* vo.regsearch(...), SkyCoord.from_name("m51") and service.search(...) send
\* their request and block the kernel until the answer is there.
Issue ==
    /\ Executing({"regsearch", "from_name", "search"})
    /\ Raises(Cur, ns) = "none"
    /\ inflight' = inflight \cup {Call(Cur, ns)}
    /\ UNCHANGED <<registry, ns, reads, cache, queue, running, pc, error, shown,
                   lastStarted, order, budget, log>>

\* download_file(table[i].getdataurl(), cache=True) and
\* fits.open(table[i].getdataurl()), which downloads with cache=True as well:
\* a URL of the download cache is not fetched again
Download ==
    /\ Executing({"download_file", "fits_open_url"})
    /\ Raises(Cur, ns) = "none"
    /\ reads' = Consumed(Cur, reads)
    /\ IF CacheHit(DataUrl(Cur, ns), cache)
       THEN /\ ns' = Bind(ns, Target(Cur),
                          IF Cur.op = "download_file" THEN DataUrl(Cur, ns)
                          ELSE Opened(DataUrl(Cur, ns), cache))
            /\ log' = [log EXCEPT !.obtained = @ \cup {DataUrl(Cur, ns)},
                                  !.hit = @ \cup {DataUrl(Cur, ns)}]
            /\ Completed
            /\ UNCHANGED inflight
       ELSE /\ inflight' = inflight \cup {[op |-> "fetch", url |-> DataUrl(Cur, ns)]}
            /\ log' = [log EXCEPT !.obtained = @ \cup {DataUrl(Cur, ns)}]
            /\ UNCHANGED <<ns, running, pc>>
    /\ UNCHANGED <<registry, cache, queue, error, shown, lastStarted, order, budget>>

\* The registry answers.
ReturnRegsearch ==
    /\ running # None
    /\ \E call \in inflight :
         /\ call.op = "regsearch"
         /\ LET found == regsearch(registry, call.band, call.keywords)
            IN  /\ ns' = Bind(ns, Target(Cur), found)
                /\ log' = [log EXCEPT !.searched =
                                         @ \cup {found[k] : k \in DOMAIN found}]
         /\ inflight' = inflight \ {call}
    /\ Completed
    /\ UNCHANGED <<registry, reads, cache, queue, error, shown, lastStarted, order, budget>>

\* The name resolver answers.
ReturnFromName ==
    /\ running # None
    /\ \E call \in inflight :
         /\ call.op = "from_name"
         /\ ns' = Bind(ns, Target(Cur), "m51")
         /\ inflight' = inflight \ {call}
    /\ Completed
    /\ UNCHANGED <<registry, reads, cache, queue, error, shown, lastStarted, order, budget, log>>

\* The service answers with a table of n records.
ReturnSearch ==
    /\ running # None
    /\ \E call \in inflight, n \in 0 .. MaxRecords :
         /\ call.op = "search"
         /\ ns' = Bind(ns, Target(Cur), search(call.service, call.format, n))
         /\ reads' = Unread(reads, Target(Cur), search(call.service, call.format, n))
         /\ log' = [log EXCEPT !.queried =
                                  @ \cup {<<call.service, ResponseFormat(call.format)>>}]
         /\ inflight' = inflight \ {call}
    /\ Completed
    /\ UNCHANGED <<registry, cache, queue, error, shown, lastStarted, order, budget>>

\* The image server answers with contents v, which go to the download cache.
ReturnFetch ==
    /\ running # None
    /\ \E call \in inflight, v \in 1 .. MaxVersions :
         /\ call.op = "fetch"
         /\ cache' = Store(cache, call.url, v)
         /\ ns' = Bind(ns, Target(Cur),
                       IF Cur.op = "download_file" THEN call.url
                       ELSE Opened(call.url, cache'))
         /\ inflight' = inflight \ {call}
    /\ Completed
    /\ UNCHANGED <<registry, reads, queue, error, shown, lastStarted, order, budget, log>>

\* (variant) a call wrapped in a retry loop: the statement is executed again
Retried(c, p) == [running |-> c, pc |-> p, error |-> "none"]

\* the kernel after the network call of statement p of cell c has failed:
\* the library's exception ends the cell
AfterFailure(c, p) == [running |-> None, pc |-> 0, error |-> "NetworkError"]

\* A network call times out or its response is malformed.
Fail ==
    /\ running # None
    /\ \E call \in inflight : inflight' = inflight \ {call}
    /\ running' = AfterFailure(running, pc).running
    /\ pc' = AfterFailure(running, pc).pc
    /\ error' = AfterFailure(running, pc).error
    /\ queue' = IF running' = None THEN <<>> ELSE queue
    /\ UNCHANGED <<registry, ns, reads, cache, shown, lastStarted, order, budget, log>>

\* The user restarts the kernel: the namespace is gone, the files on disk stay.
Restart ==
    /\ Idle
    /\ queue = <<>>
    /\ ns # Empty
    /\ budget > 0
    /\ ns' = Empty
    /\ reads' = NoReads
    /\ error' = "none"
    /\ shown' = <<>>
    /\ lastStarted' = 0
    /\ order' = "strict"
    /\ budget' = budget - 1
    /\ UNCHANGED <<registry, cache, queue, running, pc, inflight, log>>

Next ==
    \/ \E c \in CellSet : RunCell(c)
    \/ \E c \in CellSet : Request(c)
    \/ Start
    \/ Raise
    \/ Import
    \/ Select
    \/ GetDataUrl
    \/ Display
    \/ FitsOpenFile
    \/ Imshow
    \/ FITSFigure
    \/ Issue
    \/ Download
    \/ ReturnRegsearch
    \/ ReturnFromName
    \/ ReturnSearch
    \/ ReturnFetch
    \/ Fail
    \/ Restart

\* Sessions of the notebook, for every registry.
Spec == Init /\ [][Next]_vars

----------------------------------------------------------------------------
(* Properties of the notebook. *)

\* the URLs whose payload is on disk, is being fetched or was handed to the
\* front end
Payloads ==
    DOMAIN cache
      \cup {call.url : call \in {d \in inflight : d.op = "fetch"}}
      \cup {shown[k].url : k \in DOMAIN shown}

\* every payload comes from a URL read off a record, every such record from
\* a query that was answered, every queried service from a registry search;
\* what imshow and aplpy show was downloaded before
Provenance ==
    /\ \A u \in Payloads : u \in log.obtained
    /\ \A u \in log.obtained : <<u.service, u.format>> \in log.queried
    /\ \A q \in log.queried : q[1] \in log.searched
    /\ \A k \in DOMAIN shown :
         shown[k].cell # "img" => shown[k].url \in DOMAIN cache

\* the answer to a service query puts nothing into the download cache: it
\* binds a table of records
QueryDownloadsNothing ==
    (\E call \in inflight : call.op = "search") /\ inflight' = {}
        => /\ cache' = cache
           /\ shown' = shown
           /\ log'.obtained = log.obtained

\* C1: registry search, selection, query, getdataurl(), download and display
\* happen in this order: a service query downloads no payload, and every
\* payload downloaded or displayed comes from a URL obtained from a record
\* of an earlier query on a service an earlier registry search returned.
StepsInOrder == []Provenance /\ [][QueryDownloadsNothing]_vars

\* C1 (case): the last cell has shown the image it downloaded.
ShownLastImage ==
    /\ shown # <<>>
    /\ shown[1].cell = "jhu_download"
    /\ running = None

\* when a network call ends, its statement has completed, or the library's
\* exception has ended the cell: the namespace is as before the call, no
\* cell waits, nothing is in flight
CallEnds ==
    inflight # {} /\ inflight' = {}
        => \/ /\ running' = Advance(running, pc).running
              /\ pc' = Advance(running, pc).pc
              /\ error' = "none"
           \/ /\ running' = None
              /\ pc' = 0
              /\ error' = "NetworkError"
              /\ queue' = <<>>
              /\ ns' = ns
              /\ cache' = cache

\* after an exception only the user makes the kernel execute a cell: no
\* cell waits for the kernel to start it
OnlyTheUserRuns ==
    error # "none" /\ running = None /\ running' # None => queue = <<>>

\* C2: a failed network call is never made again by the notebook itself: the
\* failure surfaces as the library's exception, the cell stops, and the call
\* is made again only when the user runs the cell again.
NoAutomaticRetry == [][CallEnds /\ OnlyTheUserRuns]_vars

\* C2 (case): the FITS query cell has ended with the library's exception.
FitsCellFailed ==
    /\ error = "NetworkError"
    /\ running = None
    /\ lastStarted = Index["im_table_fits"]

\* C3, as stated: nothing outlives the run; a new kernel finds no file of an
\* earlier run.
NothingOutlivesRun == (ns = Empty /\ running = None) => cache = EmptyCache

\* the cells that download with the cache on
DownloadCells == {"im_table_fits", "heasarc_download", "jhu_download"}

\* the download cache changes only in a download cell, and only by a new
\* file; the files it has stay as they are
CacheGrows ==
    cache' # cache
        => /\ running \in DownloadCells
           /\ \A u \in DOMAIN cache : u \in DOMAIN cache' /\ cache'[u] = cache[u]

\* a restart of the kernel drops the namespace and keeps the files on disk
RestartKeepsFiles ==
    lastStarted # 0 /\ lastStarted' = 0
        => /\ ns' = Empty
           /\ shown' = <<>>
           /\ cache' = cache

\* C3, amended: the kernel's namespace does not outlive the session, but
\* the download cache does: the cells that download with cache=True (and
\* fits.open of a URL) store the file on disk, where it stays, unchanged,
\* through later cells and through a restart of the kernel.
OnlyTheCacheOutlivesRun == [][CacheGrows /\ RestartKeepsFiles]_vars

\* C3 (case): a new kernel with files of the earlier run on disk.
NewKernelOldFiles == ns = Empty /\ running = None /\ cache # EmptyCache

\* the cell of the notebook that binds name x first
Definer(x) ==
    CASE x = "modules" -> "imports"
      [] x = "coords" -> "im_table_jpeg"
      [] x = "im_table" -> "im_table_jpeg"
      [] x = "hdu_list" -> "im_table_fits"
      [] x = "gc" -> "aplpy"
      [] x \in {"heasarc_dr7_service", "sdss_table_heasarc"} -> "heasarc_query"
      [] x = "file_name" -> "heasarc_download"
      [] x \in {"jhu_dr7_service", "sdss_table_jhu"} -> "jhu_query"
      [] OTHER -> x

\* the cells that assign to name x
Assigning(x) ==
    CASE x = "im_table" -> {"im_table_jpeg", "im_table_fits"}
      [] x = "hdu_list" -> {"im_table_fits", "heasarc_download", "jhu_download"}
      [] x = "file_name" -> {"heasarc_download", "jhu_download"}
      [] OTHER -> {Definer(x)}

\* the names that hold another value after the step, the session going on
Changed == {x \in Names : Bound(ns, x) /\ Bound(ns', x) /\ ns'[x] # ns[x]}

\* C4, as stated: once a cell has bound a name, no other cell changes the
\* value the name holds.
NoOtherCellRebinds == [][\A x \in Changed : running = Definer(x)]_vars

\* C4, amended: im_table, hdu_list and file_name are assigned by more than
\* one cell (im_table by the JPEG and the FITS query cell, hdu_list by the
\* three cells that open a FITS file, file_name by the two SDSS download
\* cells) and hold what the last of them to run bound; every other name
\* is changed by the one cell that assigns to it only.
OnlyAssigningCellsRebind ==
    [][\A x \in Names : ns'[x] # ns[x] /\ ns' # Empty => running \in Assigning(x)]_vars

\* C4 (case): url holds the URL of a JPEG record while im_table has been
\* bound again, to the FITS query's result.
TableReboundAfterUrl ==
    /\ Bound(ns, "url")
    /\ Bound(ns, "im_table")
    /\ Val(ns, "url").format = "image/jpeg"
    /\ Val(ns, "im_table").format = "image/fits"

\* C5, as stated: getdataurl() is called at most once on every record of
\* every query result.
ReadAtMostOnce ==
    \A x \in Tables : \A i \in DOMAIN reads[x] : reads[x][i] <= 1

\* how often the cells, run once each from top to bottom, call getdataurl()
\* on record i of the table x holds
ReadsInOnePass(x, i) ==
    IF x = "im_table" /\ i = 0 /\ Val(ns, x).format = "image/jpeg" THEN 2 ELSE 1

\* C5, amended: while the cells are run once each from top to bottom,
\* getdataurl() is called at most twice on the first record of the JPEG
\* query's result (by the url cell and again by the img cell) and at most
\* once on every other record.
ReadTwiceAtMost ==
    order = "strict"
        => \A x \in Tables : \A i \in DOMAIN reads[x] :
              reads[x][i] <= ReadsInOnePass(x, i)

\* C5 (case): both cells have read the first JPEG record.
JpegRecordReadTwice ==
    /\ order = "strict"
    /\ Bound(ns, "im_table")
    /\ 0 \in DOMAIN reads["im_table"]
    /\ reads["im_table"][0] = 2

\* the URL-valued names hold the access URL of a record of a table
HoldsAccessUrl(x) ==
    Bound(ns, x) =>
        \E q \in log.queried, i \in 0 .. MaxRecords - 1 :
            Val(ns, x) = [service |-> q[1], format |-> q[2], index |-> i]

\* C6: for every service and every record of every query result,
\* getdataurl() yields the record's access URL, whatever the service calls
\* the column that holds it; the URLs the notebook uses are such URLs.
GetDataUrlYieldsAccessUrl ==
    /\ \A x \in Tables :
         Bound(ns, x) =>
            \A i \in 0 .. Val(ns, x).n - 1 :
                getdataurl(Record(Val(ns, x), i))
                  = [service |-> Val(ns, x).service,
                     format |-> Val(ns, x).format,
                     index |-> i]
    /\ \A x \in {"url", "img", "file_name"} : HoldsAccessUrl(x)

\* C6 (case): the URLs of two services that name the column differently
\* have been read.
UrlsOfBothColumnNames ==
    /\ Bound(ns, "url")
    /\ UrlColumn(Val(ns, "url").service) = "URL"
    /\ Bound(ns, "file_name")
    /\ UrlColumn(Val(ns, "file_name").service) = "url"

\* at most one cell, at most one call, and a call only of a running cell
OneAtATime ==
    /\ Cardinality(inflight) <= 1
    /\ inflight # {} => running # None
    /\ running = None <=> pc = 0

\* a cell starts when no cell executes and no call is outstanding
StartsWhenFree ==
    running' # running /\ running' # None => running = None /\ inflight = {}

\* C7: execution is single-threaded and synchronous: at most one cell
\* executes, at most one network call is outstanding, and a cell does not
\* start before the one before it has returned or raised.
SingleThreaded == []OneAtATime /\ [][StartsWhenFree]_vars

\* C7 (case): a cell waits while another one waits for the network.
CellWaitsForCall == running # None /\ inflight # {} /\ queue # <<>>

\* what the cells of sections 2 and 3 show is what their query asked for
SeesItsQuery ==
    \A k \in DOMAIN shown :
        /\ shown[k].cell = "img" => shown[k].url.format = "image/jpeg"
        /\ shown[k].cell \in {"imshow", "aplpy"}
              => shown[k].url
                   = [service |-> "SwiftUVOT", format |-> "image/fits", index |-> 0]

\* C8, as stated: whenever the JPEG display cell runs, im_table holds the
\* result of the JPEG query; whenever the imshow and aplpy cells of section
\* 3 run, hdu_list is the FITS file of the first record of the FITS query on
\* the UVOT service.
DisplayAlwaysSeesItsQuery == SeesItsQuery

\* C8, amended: this holds while the user runs the cells in the order of the
\* notebook (a cell that raised may be run again); a cell run again after
\* later cells have run sees what these bound to im_table and hdu_list.
DisplaySeesItsQueryInOrder == order # "free" => SeesItsQuery

\* C8 (case): the aplpy cell has shown the UVOT image, the cells run in order.
AplpyShownInOrder ==
    /\ order # "free"
    /\ shown # <<>>
    /\ shown[1].cell = "aplpy"

\* service sel is the first of the list that matches
IsFirstMatch(sel, services, where) ==
    \E k \in DOMAIN services :
        /\ services[k] = sel
        /\ Contains(SDSSDR7, short_name(sel)) /\ Contains(where, ivoid(sel))
        /\ \A j \in 1 .. k - 1 :
             ~(Contains(SDSSDR7, short_name(services[j]))
               /\ Contains(where, ivoid(services[j])))

\* the selected services are the first matches of the search's result, and
\* the tables are the answers of the selected services
SelectedAndQueried ==
    /\ Bound(ns, "heasarc_dr7_service")
          => IsFirstMatch(Val(ns, "heasarc_dr7_service"),
                          regsearch(registry, "optical", {"sloan"}), heasarc)
    /\ Bound(ns, "jhu_dr7_service")
          => IsFirstMatch(Val(ns, "jhu_dr7_service"),
                          regsearch(registry, "optical", {"sloan"}), jhu)
    /\ Bound(ns, "sdss_table_heasarc")
          => Val(ns, "sdss_table_heasarc").service = Val(ns, "heasarc_dr7_service")
    /\ Bound(ns, "sdss_table_jhu")
          => Val(ns, "sdss_table_jhu").service = Val(ns, "jhu_dr7_service")

BothSelected == Bound(ns, "heasarc_dr7_service") /\ Bound(ns, "jhu_dr7_service")

FetchedOnce ==
    /\ ( /\ running # None
         /\ inflight = {}
         /\ Cur.op \in {"download_file", "fits_open_url"}
         /\ Raises(Cur, ns) = "none"
         /\ DataUrl(Cur, ns) \in DOMAIN cache )
         => inflight' = {} /\ cache' = cache
    /\ \A u \in DOMAIN cache : u \in DOMAIN cache' /\ cache'[u] = cache[u]

\* the FITS file that is open is the file of the cache
OpenedFromCache ==
    Bound(ns, "hdu_list") =>
        /\ Val(ns, "hdu_list").url \in DOMAIN cache
        /\ Val(ns, "hdu_list").data = cache[Val(ns, "hdu_list").url]

\* C10: with cache=True a download cell run again for a URL that was
\* downloaded before fetches nothing and yields the contents of the first
\* download, also in a later run of the notebook.
DownloadIdempotent == []OpenedFromCache /\ [][FetchedOnce]_vars

\* C10 (case): in a later run of the notebook an SDSS download cell was
\* served from the cache.
ServedFromCacheAfterRestart ==
    /\ budget = 0
    /\ order = "strict"
    /\ running = None
    /\ error = "none"
    /\ lastStarted = Index["heasarc_download"]
    /\ Bound(ns, "file_name")
    /\ Val(ns, "file_name") \in log.hit

====
